---------------------------- MODULE Spec2Model ----------------------------
(* A model of capydb's Collection (src/capydb/_collection.py): the           *)
(* extended-JSON codec (__serialize / __deserialize), the response           *)
(* classifier (handle_response) and the six operations built on them.        *)
(*                                                                          *)
(* Python values are records with a field t naming the runtime type; every  *)
(* type keeps its payload under field names of its own.  A str holds its    *)
(* characters as a sequence of one-character strings, so that hex, decimal  *)
(* and ISO formatting and parsing are computed.  Dictionary keys are TLA+   *)
(* strings; a dict is the sequence of its <<key, value>> items in insertion *)
(* order.  A raised exception is a value of type "raise".                   *)
EXTENDS Integers, Sequences, FiniteSets, TLC

VARIABLES
    pc,        \* where the caller is: in a call of an operation, or in the codec
    op,        \* the operation called
    args,      \* its arguments, by parameter name
    data,      \* the request body the operation built
    response,  \* the transport's response: status_code and body
    outcome,   \* what the call returned or raised
    value,     \* codec: the in-memory value
    steps,     \* codec: how many times the value was grown
    wire,      \* codec: the wire form
    decoded    \* codec: what __deserialize made of the wire form

vars == <<pc, op, args, data, response, outcome, value, steps, wire, decoded>>

facadeVars == <<op, args, data, response, outcome>>

codecVars == <<value, steps, wire, decoded>>

-----------------------------------------------------------------------------
(* Python values                                                            *)

PyNone == [t |-> "NoneType"]

PyBool(b) == [t |-> "bool", b |-> b]

PyInt(i) == [t |-> "int", i |-> i]

\* A float, held in tenths: PyFloat(15) is 1.5.
PyFloat(tenths) == [t |-> "float", f |-> tenths]

PyStr(chars) == [t |-> "str", s |-> chars]

PyDict(items) == [t |-> "dict", items |-> items]

PyList(elems) == [t |-> "list", elems |-> elems]

\* A value of a type the codec knows nothing about (a set, a tuple, bytes).
PyObject(cls) == [t |-> "object", cls |-> cls]

\* An exception of class exc, raised while building a value of type by.
Raise(exc, by) == [t |-> "raise", exc |-> exc, by |-> by]

IsRaise(v) == v.t = "raise"

\* The classes isinstance(v, cls) answers True for: bson.Code derives from
\* str, bool from int, bson.Binary from bytes.
Bases(t) ==
    CASE t = "Code" -> {"Code", "str"}
      [] t = "bool" -> {"bool", "int"}
      [] t = "Binary" -> {"Binary", "bytes"}
      [] OTHER -> {t}

isinstance(v, classes) == Bases(v.t) \cap classes # {}

Keys(d) == {d.items[n][1] : n \in DOMAIN d.items}

\* d[key] of a dict that has the key.
GetItem(d, key) ==
    d.items[CHOOSE n \in DOMAIN d.items : d.items[n][1] = key][2]

\* d.get(key, default)
Get(d, key, default) == IF key \in Keys(d) THEN GetItem(d, key) ELSE default

Min(S) == CHOOSE n \in S : \A m \in S : n <= m

-----------------------------------------------------------------------------
(* Text conversions used by the registry and by the tag decoders            *)

HexDigits ==
    <<"0", "1", "2", "3", "4", "5", "6", "7", "8", "9",
      "a", "b", "c", "d", "e", "f">>

UpperHexDigits ==
    <<"0", "1", "2", "3", "4", "5", "6", "7", "8", "9",
      "A", "B", "C", "D", "E", "F">>

\* The value of a hexadecimal digit of either case, -1 for any other character.
HexValue(c) ==
    IF \E n \in 1..16 : HexDigits[n] = c
    THEN (CHOOSE n \in 1..16 : HexDigits[n] = c) - 1
    ELSE IF \E n \in 1..16 : UpperHexDigits[n] = c
         THEN (CHOOSE n \in 1..16 : UpperHexDigits[n] = c) - 1
         ELSE -1

IsDigit(c) == HexValue(c) \in 0..9

IsDigits(chars) == \A k \in DOMAIN chars : IsDigit(chars[k])

\* bytes.hex(): two lower-case digits per byte.
BytesHex(bytes) ==
    [n \in 1..(2 * Len(bytes)) |->
        IF n % 2 = 1
        THEN HexDigits[(bytes[(n + 1) \div 2] \div 16) + 1]
        ELSE HexDigits[(bytes[n \div 2] % 16) + 1]]

IsHex(chars) ==
    /\ Len(chars) % 2 = 0
    /\ \A k \in DOMAIN chars : HexValue(chars[k]) >= 0

\* The bytes of a string of hexadecimal digit pairs.
HexBytes(chars) ==
    [n \in 1..(Len(chars) \div 2) |->
        16 * HexValue(chars[2 * n - 1]) + HexValue(chars[2 * n])]

PyBytes(bytes) == [t |-> "bytes", data |-> bytes]

\* bytes.fromhex(x)
bytes_fromhex(x) ==
    IF x.t # "str" THEN Raise("TypeError", "Binary")
    ELSE IF ~IsHex(x.s) THEN Raise("ValueError", "Binary")
    ELSE PyBytes(HexBytes(x.s))

RECURSIVE Pow10(_)
Pow10(n) == IF n = 0 THEN 1 ELSE 10 * Pow10(n - 1)

\* format(n, "0<width>d")
Pad(n, width) ==
    [k \in 1..width |-> HexDigits[((n \div Pow10(width - k)) % 10) + 1]]

\* int(chars) of a string of decimal digits.
ParseNat(chars) ==
    LET acc[k \in 0..Len(chars)] ==
            IF k = 0 THEN 0 ELSE 10 * acc[k - 1] + HexValue(chars[k])
    IN  acc[Len(chars)]

RECURSIVE DigitsOf(_)
DigitsOf(n) ==
    IF n < 10 THEN <<HexDigits[n + 1]>>
    ELSE DigitsOf(n \div 10) \o <<HexDigits[(n % 10) + 1]>>

-----------------------------------------------------------------------------
(* bson.ObjectId                                                            *)

\* Hexadecimal digits of an ObjectId's string form (12 bytes).
OID_HEX_LEN == 24

ObjectId_(bytes) == [t |-> "ObjectId", oid |-> bytes]

\* ObjectId() with no argument draws a fresh id; one id stands for it.
GeneratedOid == [n \in 1..(OID_HEX_LEN \div 2) |-> 255]

\* ObjectId(x)
ObjectId(x) ==
    IF x.t = "NoneType" THEN ObjectId_(GeneratedOid)
    ELSE IF x.t = "ObjectId" THEN x
    ELSE IF x.t = "str"
         THEN IF Len(x.s) = OID_HEX_LEN /\ IsHex(x.s)
              THEN ObjectId_(HexBytes(x.s))
              ELSE Raise("InvalidId", "ObjectId")
    ELSE IF x.t = "bytes"
         THEN IF 2 * Len(x.data) = OID_HEX_LEN
              THEN ObjectId_(x.data)
              ELSE Raise("InvalidId", "ObjectId")
    ELSE Raise("TypeError", "ObjectId")

\* str(v) of an ObjectId
ObjectId_str(v) == PyStr(BytesHex(v.oid))

-----------------------------------------------------------------------------
(* datetime.datetime (naive)                                                *)

datetime_(y, mo, d, h, mi, s, us) ==
    [t |-> "datetime", year |-> y, month |-> mo, day |-> d,
     hour |-> h, minute |-> mi, second |-> s, microsecond |-> us]

\* A slip: the microseconds are left out (timespec="seconds").
isoformatSeconds(v) ==
    PyStr(Pad(v.year, 4) \o <<"-">> \o Pad(v.month, 2) \o <<"-">>
          \o Pad(v.day, 2) \o <<"T">> \o Pad(v.hour, 2) \o <<":">>
          \o Pad(v.minute, 2) \o <<":">> \o Pad(v.second, 2))

\* v.isoformat(): YYYY-MM-DDTHH:MM:SS, then .ffffff when microsecond is not 0.
isoformat(v) ==
    PyStr(Pad(v.year, 4) \o <<"-">> \o Pad(v.month, 2) \o <<"-">>
          \o Pad(v.day, 2) \o <<"T">> \o Pad(v.hour, 2) \o <<":">>
          \o Pad(v.minute, 2) \o <<":">> \o Pad(v.second, 2)
          \o (IF v.microsecond = 0 THEN <<>>
              ELSE <<".">> \o Pad(v.microsecond, 6)))

\* The ISO forms fromisoformat reads for a naive datetime: a date, then
\* optionally any one separator and HH[:MM[:SS[.fff[fff]]]].
IsIsoFormat(c) ==
    /\ Len(c) \in {10, 13, 16, 19, 23, 26}
    /\ IsDigits(SubSeq(c, 1, 4)) /\ c[5] = "-"
    /\ IsDigits(SubSeq(c, 6, 7)) /\ c[8] = "-"
    /\ IsDigits(SubSeq(c, 9, 10))
    /\ Len(c) >= 13 => IsDigits(SubSeq(c, 12, 13))
    /\ Len(c) >= 16 => c[14] = ":" /\ IsDigits(SubSeq(c, 15, 16))
    /\ Len(c) >= 19 => c[17] = ":" /\ IsDigits(SubSeq(c, 18, 19))
    /\ Len(c) >= 23 => c[20] = "." /\ IsDigits(SubSeq(c, 21, Len(c)))

IsoField(c, from, to) ==
    IF Len(c) >= to THEN ParseNat(SubSeq(c, from, to)) ELSE 0

\* The days of a month of the proleptic Gregorian calendar.
DaysInMonth(y, mo) ==
    IF mo = 2
    THEN IF (y % 4 = 0 /\ y % 100 # 0) \/ y % 400 = 0 THEN 29 ELSE 28
    ELSE IF mo \in {4, 6, 9, 11} THEN 30 ELSE 31

\* datetime.fromisoformat(x)
fromisoformat(x) ==
    IF x.t # "str" THEN Raise("TypeError", "datetime")
    ELSE IF ~IsIsoFormat(x.s) THEN Raise("ValueError", "datetime")
    ELSE LET c == x.s
             mo == IsoField(c, 6, 7)
             d == IsoField(c, 9, 10)
             h == IsoField(c, 12, 13)
             mi == IsoField(c, 15, 16)
             s == IsoField(c, 18, 19)
             us == IF Len(c) = 23 THEN 1000 * IsoField(c, 21, 23)
                   ELSE IsoField(c, 21, 26)
         IN  IF /\ IsoField(c, 1, 4) >= 1
                /\ mo \in 1..12 /\ d \in 1..DaysInMonth(IsoField(c, 1, 4), mo)
                /\ h < 24 /\ mi < 60 /\ s < 60
             THEN datetime_(IsoField(c, 1, 4), mo, d, h, mi, s, us)
             ELSE Raise("ValueError", "datetime")

-----------------------------------------------------------------------------
(* bson.Decimal128: a sign, a coefficient and the number of fraction digits *)

Decimal128_(neg, coeff, scale) ==
    [t |-> "Decimal128", neg |-> neg, coeff |-> coeff, scale |-> scale]

\* str(v) of a Decimal128 in plain notation.
Decimal128_str(v) ==
    LET digits == DigitsOf(v.coeff)
        padded == IF Len(digits) > v.scale THEN digits
                  ELSE [k \in 1..(v.scale + 1 - Len(digits)) |-> "0"] \o digits
        whole == SubSeq(padded, 1, Len(padded) - v.scale)
        frac == SubSeq(padded, Len(padded) - v.scale + 1, Len(padded))
    IN  PyStr((IF v.neg THEN <<"-">> ELSE <<>>) \o whole
              \o (IF v.scale = 0 THEN <<>> ELSE <<".">> \o frac))

\* Decimal128(x) of a string in plain notation: [sign] digits [. digits]
Decimal128(x) ==
    IF x.t = "Decimal128" THEN x
    ELSE IF x.t # "str" THEN Raise("TypeError", "Decimal128")
    ELSE LET signed == Len(x.s) > 0 /\ x.s[1] \in {"-", "+"}
             body == IF signed THEN Tail(x.s) ELSE x.s
             dots == {k \in DOMAIN body : body[k] = "."}
             point == IF dots = {} THEN Len(body) + 1 ELSE Min(dots)
             whole == SubSeq(body, 1, point - 1)
             frac == SubSeq(body, point + 1, Len(body))
         IN  IF Len(whole) + Len(frac) > 0 /\ IsDigits(whole) /\ IsDigits(frac)
             THEN Decimal128_(signed /\ x.s[1] = "-",
                              ParseNat(whole \o frac), Len(frac))
             ELSE Raise("InvalidOperation", "Decimal128")

-----------------------------------------------------------------------------
(* bson.Binary, Regex, Code, Timestamp, MinKey, MaxKey                      *)

Binary_(bytes, subtype) == [t |-> "Binary", data |-> bytes, subtype |-> subtype]

\* Binary(x): subtype 0 unless given.
Binary(x) ==
    IF IsRaise(x) THEN x
    ELSE IF isinstance(x, {"bytes"}) THEN Binary_(x.data, 0)
    ELSE Raise("TypeError", "Binary")

\* v.hex() of a Binary, which is a bytes object.
Binary_hex(v) == PyStr(BytesHex(v.data))

Regex_(pattern, flags) == [t |-> "Regex", pattern |-> pattern, flags |-> flags]

\* The bit of one flag letter (bson.regex.str_flags_to_int).
FlagBit(c) ==
    CASE c = "i" -> 2 [] c = "l" -> 4 [] c = "m" -> 8
      [] c = "s" -> 16 [] c = "u" -> 32 [] c = "x" -> 64
      [] OTHER -> 0

RECURSIVE SumBits(_)
SumBits(S) ==
    IF S = {} THEN 0
    ELSE LET c == CHOOSE c \in S : TRUE IN FlagBit(c) + SumBits(S \ {c})

\* Regex(pattern, flags)
Regex(pattern, flags) ==
    IF ~isinstance(pattern, {"str", "bytes"}) THEN Raise("TypeError", "Regex")
    ELSE IF flags.t = "str"
         THEN Regex_(pattern, PyInt(SumBits({flags.s[k] : k \in DOMAIN flags.s})))
    ELSE IF isinstance(flags, {"int"}) THEN Regex_(pattern, flags)
    ELSE Raise("TypeError", "Regex")

Code_(chars, scope) == [t |-> "Code", code |-> chars, scope |-> scope]

\* Code(x): no scope unless x is itself a Code.
Code(x) ==
    IF x.t = "Code" THEN x
    ELSE IF x.t = "str" THEN Code_(x.s, PyNone)
    ELSE Raise("TypeError", "Code")

\* str(v) of a Code: its text, as a plain str.
Code_str(v) == PyStr(v.code)

Timestamp_(time, inc) == [t |-> "Timestamp", time |-> time, inc |-> inc]

IntValue(x) == IF x.t = "bool" THEN (IF x.b THEN 1 ELSE 0) ELSE x.i

\* Timestamp(time, inc).  Both must be in 0 .. 2^32 - 1; the upper limit is
\* above every integer of the model.
Timestamp(time, inc) ==
    IF ~isinstance(time, {"int"}) \/ ~isinstance(inc, {"int"})
    THEN Raise("TypeError", "Timestamp")
    ELSE IF IntValue(time) >= 0 /\ IntValue(inc) >= 0
         THEN Timestamp_(IntValue(time), IntValue(inc))
         ELSE Raise("ValueError", "Timestamp")

\* container[key] with a string key, as value["$timestamp"]["t"] needs it.
Subscript(container, key) ==
    IF container.t # "dict" THEN Raise("TypeError", "Timestamp")
    ELSE IF key \notin Keys(container) THEN Raise("KeyError", "Timestamp")
    ELSE GetItem(container, key)

MinKey == [t |-> "MinKey"]

MaxKey == [t |-> "MaxKey"]

-----------------------------------------------------------------------------
(* EmbText and EmbImage: the placeholders' own export and import            *)

EmbText_(payload) == [t |-> "EmbText", payload |-> payload]

EmbImage_(payload) == [t |-> "EmbImage", payload |-> payload]

\* EmbText.to_json(): the tagged wire form of the placeholder.
EmbText_to_json(v) == PyDict(<< <<"@embText", v.payload>> >>)

\* EmbText.from_json(d): the placeholder of the payload under the tag.
EmbText_from_json(d) == EmbText_(GetItem(d, "@embText"))

EmbImage_to_json(v) == PyDict(<< <<"@embImage", v.payload>> >>)

EmbImage_from_json(d) == EmbImage_(GetItem(d, "@embImage"))

-----------------------------------------------------------------------------
(* TypeCodec: Collection.__serialize                                        *)

\* The types BSON_SERIALIZERS has an entry for.
BSON_SERIALIZER_TYPES ==
    {"EmbText", "ObjectId", "datetime", "Decimal128", "Binary", "Regex",
     "Code", "Timestamp", "MinKey", "MaxKey"}

\* BSON_SERIALIZERS[type(v)](v)
BSON_SERIALIZERS(v) ==
    CASE v.t = "EmbText" -> PyDict(<< <<"@embText", EmbText_to_json(v)>> >>)
      [] v.t = "ObjectId" -> PyDict(<< <<"$oid", ObjectId_str(v)>> >>)
      [] v.t = "datetime" -> PyDict(<< <<"$date", isoformat(v)>> >>)
      [] v.t = "Decimal128" ->
            PyDict(<< <<"$numberDecimal", Decimal128_str(v)>> >>)
      [] v.t = "Binary" -> PyDict(<< <<"$binary", Binary_hex(v)>> >>)
      [] v.t = "Regex" ->
            PyDict(<< <<"$regex", v.pattern>>, <<"$options", v.flags>> >>)
      [] v.t = "Code" -> PyDict(<< <<"$code", Code_str(v)>> >>)
      [] v.t = "Timestamp" ->
            PyDict(<< <<"$timestamp",
                        PyDict(<< <<"t", PyInt(v.time)>>,
                                  <<"i", PyInt(v.inc)>> >>)>> >>)
      [] v.t = "MinKey" -> PyDict(<< <<"$minKey", PyInt(1)>> >>)
      [] v.t = "MaxKey" -> PyDict(<< <<"$maxKey", PyInt(1)>> >>)

\* The first exception among the results of a comprehension, which ends it.
Raised(results) ==
    LET bad == {n \in DOMAIN results : IsRaise(results[n])}
    IN  IF bad = {} THEN PyNone ELSE results[Min(bad)]

\* A slip: a Document's items whose value is None are left out.
RECURSIVE serializeDroppingNone(_)
serializeDroppingNone(v) ==
    IF v.t = "NoneType" \/ isinstance(v, {"bool", "int", "float", "str"})
    THEN v
    ELSE IF isinstance(v, {"dict"})
    THEN LET kept == SelectSeq(v.items, LAMBDA item : item[2].t # "NoneType")
             out == [n \in DOMAIN kept |-> serializeDroppingNone(kept[n][2])]
         IN  IF IsRaise(Raised(out)) THEN Raised(out)
             ELSE PyDict([n \in DOMAIN kept |-> <<kept[n][1], out[n]>>])
    ELSE IF isinstance(v, {"list"})
    THEN LET out == [n \in DOMAIN v.elems |-> serializeDroppingNone(v.elems[n])]
         IN  IF IsRaise(Raised(out)) THEN Raised(out) ELSE PyList(out)
    ELSE IF isinstance(v, {"EmbText"}) THEN EmbText_to_json(v)
    ELSE IF isinstance(v, {"EmbImage"}) THEN EmbImage_to_json(v)
    ELSE IF v.t \in BSON_SERIALIZER_TYPES THEN BSON_SERIALIZERS(v)
    ELSE Raise("TypeError", "serialize")

\* Collection.__serialize
RECURSIVE serialize(_)
serialize(v) ==
    IF v.t = "NoneType" \/ isinstance(v, {"bool", "int", "float", "str"})
    THEN v
    ELSE IF isinstance(v, {"dict"})
    THEN LET out == [n \in DOMAIN v.items |-> serialize(v.items[n][2])]
         IN  IF IsRaise(Raised(out)) THEN Raised(out)
             ELSE PyDict([n \in DOMAIN v.items |-> <<v.items[n][1], out[n]>>])
    ELSE IF isinstance(v, {"list"})
    THEN LET out == [n \in DOMAIN v.elems |-> serialize(v.elems[n])]
         IN  IF IsRaise(Raised(out)) THEN Raised(out) ELSE PyList(out)
    ELSE IF isinstance(v, {"EmbText"}) THEN EmbText_to_json(v)
    ELSE IF isinstance(v, {"EmbImage"}) THEN EmbImage_to_json(v)
    ELSE IF v.t \in BSON_SERIALIZER_TYPES THEN BSON_SERIALIZERS(v)
    ELSE Raise("TypeError", "serialize")

-----------------------------------------------------------------------------
(* TypeCodec: Collection.__deserialize                                      *)

\* The keys of the model that begin with "$" (key.startswith("$")).
DollarKeys ==
    {"$oid", "$date", "$numberDecimal", "$binary", "$regex", "$code",
     "$timestamp", "$minKey", "$maxKey", "$options", "$set"}

StartsWithDollar(key) == key \in DollarKeys

\* What the key loop leaves when no key returned a value.
NoTag == [t |-> "notag"]

\* Timestamp(value["$timestamp"]["t"], value["$timestamp"]["i"])
TimestampOf(payload) ==
    LET time == Subscript(payload, "t")
        inc == Subscript(payload, "i")
    IN  IF IsRaise(time) THEN time
        ELSE IF IsRaise(inc) THEN inc
        ELSE Timestamp(time, inc)

\* The if-chain on a key that starts with "$": the value it returns, or
\* NoTag when the key is none of the tags and the loop goes on.
DecodeDollarKey(v, key) ==
    IF key = "$oid" THEN ObjectId(GetItem(v, "$oid"))
    ELSE IF key = "$date" THEN fromisoformat(GetItem(v, "$date"))
    ELSE IF key = "$numberDecimal" THEN Decimal128(GetItem(v, "$numberDecimal"))
    ELSE IF key = "$binary" THEN Binary(bytes_fromhex(GetItem(v, "$binary")))
    ELSE IF key = "$regex"
         THEN Regex(GetItem(v, "$regex"), Get(v, "$options", PyInt(0)))
    ELSE IF key = "$code" THEN Code(GetItem(v, "$code"))
    ELSE IF key = "$timestamp" THEN TimestampOf(GetItem(v, "$timestamp"))
    ELSE IF key = "$minKey" THEN MinKey
    ELSE IF key = "$maxKey" THEN MaxKey
    ELSE NoTag

\* A slip: the embedding tags are looked for in the key at hand, not in the
\* whole Document.
RECURSIVE ScanKeysEmbAtKey(_, _)
ScanKeysEmbAtKey(v, n) ==
    IF n > Len(v.items) THEN NoTag
    ELSE LET key == v.items[n][1] IN
         IF key = "@embText" THEN EmbText_from_json(v)
         ELSE IF key = "@embImage" THEN EmbImage_from_json(v)
         ELSE IF StartsWithDollar(key) /\ DecodeDollarKey(v, key) # NoTag
         THEN DecodeDollarKey(v, key)
         ELSE ScanKeysEmbAtKey(v, n + 1)

\* The loop "for key in value", from the n-th key on.
RECURSIVE ScanKeys(_, _)
ScanKeys(v, n) ==
    IF n > Len(v.items) THEN NoTag
    ELSE LET key == v.items[n][1] IN
         IF "@embText" \in Keys(v) THEN EmbText_from_json(v)
         ELSE IF "@embImage" \in Keys(v) THEN EmbImage_from_json(v)
         ELSE IF StartsWithDollar(key) /\ DecodeDollarKey(v, key) # NoTag
         THEN DecodeDollarKey(v, key)
         ELSE ScanKeys(v, n + 1)

\* The wire tags, in the order of the if-chain of __deserialize.
DollarTags ==
    <<"$oid", "$date", "$numberDecimal", "$binary", "$regex", "$code",
      "$timestamp", "$minKey", "$maxKey">>

\* A slip: the tags are tried in the order of the if-chain, not of the keys.
DecodeTaggedByPriority(v) ==
    IF v.items = <<>> THEN NoTag
    ELSE IF "@embText" \in Keys(v) THEN EmbText_from_json(v)
    ELSE IF "@embImage" \in Keys(v) THEN EmbImage_from_json(v)
    ELSE LET found == {n \in DOMAIN DollarTags : DollarTags[n] \in Keys(v)}
         IN  IF found = {} THEN NoTag
             ELSE DecodeDollarKey(v, DollarTags[Min(found)])

\* The whole key loop of a dict.
DecodeTagged(v) == ScanKeys(v, 1)

\* Collection.__deserialize
RECURSIVE deserialize(_)
deserialize(v) ==
    IF isinstance(v, {"dict"})
    THEN IF DecodeTagged(v) # NoTag THEN DecodeTagged(v)
         ELSE LET out == [n \in DOMAIN v.items |-> deserialize(v.items[n][2])]
              IN  IF IsRaise(Raised(out)) THEN Raised(out)
                  ELSE PyDict([n \in DOMAIN v.items |->
                                  <<v.items[n][1], out[n]>>])
    ELSE IF isinstance(v, {"list"})
    THEN LET out == [n \in DOMAIN v.elems |-> deserialize(v.elems[n])]
         IN  IF IsRaise(Raised(out)) THEN Raised(out) ELSE PyList(out)
    ELSE IF v.t = "NoneType" THEN PyNone
    ELSE IF isinstance(v, {"bool", "int", "float", "str"}) THEN v
    ELSE Raise("TypeError", "deserialize")

-----------------------------------------------------------------------------
(* ErrorClassifier: Collection.handle_response                              *)

\* A response body that is not JSON, with its raw text.
NotJson(chars) == [t |-> "notjson", text |-> PyStr(chars)]

Response(status_code, body) == [status_code |-> status_code, body |-> body]

\* response.json(): the parsed body, or a JSONDecodeError (a ValueError).
response_json(r) ==
    IF r.body.t = "notjson" THEN Raise("JSONDecodeError", "response.json")
    ELSE r.body

\* response.text, read where the body did not parse.
response_text(r) == r.body.text

\* response.raise_for_status() raises HTTPError for 400 <= status < 600.
RaisesHTTPError(r) == r.status_code >= 400 /\ r.status_code < 600

\* The exception classes "except ValueError" catches.
ValueErrors == {"ValueError", "JSONDecodeError"}

\* APIClientError(status_code, message) and its three subclasses.
APIClientError(class, status_code, message) ==
    [t |-> "raise", exc |-> class, by |-> "handle_response",
     status_code |-> status_code, message |-> message]

IsNumber(v) == isinstance(v, {"int", "float"})

\* A number in tenths, as floats are held.
Tenths(v) == IF v.t = "float" THEN v.f ELSE 10 * IntValue(v)

\* code == n, for any value of code
PyEquals(code, n) == IsNumber(code) /\ Tenths(code) = 10 * n

\* "An unknown error occurred."
UnknownError ==
    PyStr(<<"A", "n", " ", "u", "n", "k", "n", "o", "w", "n", " ", "e", "r",
            "r", "o", "r", " ", "o", "c", "c", "u", "r", "r", "e", "d", ".">>)

\* The except branch once the body parsed: the error raised for error_data.
Classify(error_data) ==
    IF error_data.t # "dict" THEN Raise("AttributeError", "handle_response")
    ELSE LET code == Get(error_data, "code", PyInt(500))
             message == Get(error_data, "message", UnknownError)
         IN  IF PyEquals(code, 401)
             THEN APIClientError("AuthenticationError", code, message)
             ELSE IF ~IsNumber(code) THEN Raise("TypeError", "handle_response")
             ELSE IF Tenths(code) >= 4000 /\ Tenths(code) < 5000
             THEN APIClientError("ClientRequestError", code, message)
             ELSE APIClientError("ServerError", code, message)

\* Collection.handle_response: the value returned, or the exception raised.
handle_response(r) ==
    IF ~RaisesHTTPError(r)
    THEN IF IsRaise(response_json(r)) THEN response_json(r)
         ELSE deserialize(response_json(r))
    ELSE IF IsRaise(response_json(r))
         THEN IF response_json(r).exc \in ValueErrors
              THEN APIClientError("APIClientError", PyInt(r.status_code),
                                  response_text(r))
              ELSE response_json(r)
         ELSE Classify(response_json(r))

-----------------------------------------------------------------------------
(* OperationFacade: the request bodies                                      *)

\* What json.dumps encodes: requests.post(..., json=data).
RECURSIVE IsJsonEncodable(_)
IsJsonEncodable(v) ==
    \/ v.t = "NoneType" \/ isinstance(v, {"bool", "int", "float", "str"})
    \/ v.t = "dict" /\ \A n \in DOMAIN v.items : IsJsonEncodable(v.items[n][2])
    \/ v.t = "list" /\ \A n \in DOMAIN v.elems : IsJsonEncodable(v.elems[n])

\* insert: {"documents": [self.__serialize(doc) for doc in documents]}
InsertData(documents) ==
    LET out == [n \in DOMAIN documents.elems |-> serialize(documents.elems[n])]
    IN  IF IsRaise(Raised(out)) THEN Raised(out)
        ELSE PyDict(<< <<"documents", PyList(out)>> >>)

\* update: {"filter": ..., "update": ..., "upsert": upsert}
UpdateData(filter, update, upsert) ==
    IF IsRaise(serialize(filter)) THEN serialize(filter)
    ELSE IF IsRaise(serialize(update)) THEN serialize(update)
    ELSE PyDict(<< <<"filter", serialize(filter)>>,
                   <<"update", serialize(update)>>,
                   <<"upsert", upsert>> >>)

\* delete: {"filter": ...}
DeleteData(filter) ==
    IF IsRaise(serialize(filter)) THEN serialize(filter)
    ELSE PyDict(<< <<"filter", serialize(filter)>> >>)

\* find: the filter serialized, the other four arguments as they are.
FindData(filter, projection, sort, limit, skip) ==
    IF IsRaise(serialize(filter)) THEN serialize(filter)
    ELSE PyDict(<< <<"filter", serialize(filter)>>,
                   <<"projection", projection>>,
                   <<"sort", sort>>,
                   <<"limit", limit>>,
                   <<"skip", skip>> >>)

\* data[key] = x, when x is not None
SetIfGiven(d, key, x) ==
    IF x.t # "NoneType" THEN PyDict(Append(d.items, <<key, x>>)) ELSE d

\* A slip: every optional argument is put in the body, None or not.
QueryDataWithNulls(query, filter, projection, emb_model, top_k, include_values) ==
    PyDict(<< <<"query", query>>, <<"filter", filter>>,
              <<"projection", projection>>, <<"emb_model", emb_model>>,
              <<"top_k", top_k>>, <<"include_values", include_values>> >>)

\* query: {"query": query} and each optional argument that is not None.
QueryData(query, filter, projection, emb_model, top_k, include_values) ==
    SetIfGiven(
        SetIfGiven(
            SetIfGiven(
                SetIfGiven(
                    SetIfGiven(PyDict(<< <<"query", query>> >>),
                               "filter", filter),
                    "projection", projection),
                "emb_model", emb_model),
            "top_k", top_k),
        "include_values", include_values)

\* response_data.get(key, []) of what handle_response returned.
GetField(result, key) ==
    IF IsRaise(result) THEN result
    ELSE IF result.t # "dict" THEN Raise("AttributeError", "get")
    ELSE Get(result, key, PyList(<<>>))

\* A slip: drop has no success path of its own.
drop_always_parses(r) ==
    IF IsRaise(handle_response(r)) THEN handle_response(r) ELSE PyNone

\* drop, once the response is there: None at once for 204, else
\* handle_response, whose value is dropped.
drop_result(r) ==
    IF r.status_code = 204 THEN PyNone
    ELSE IF IsRaise(handle_response(r)) THEN handle_response(r)
    ELSE PyNone

\* What the operation returns or raises for the response.
Result(operation, r) ==
    CASE operation = "find" -> GetField(handle_response(r), "docs")
      [] operation = "query" -> GetField(handle_response(r), "matches")
      [] operation = "drop" -> drop_result(r)
      [] OTHER -> handle_response(r)

-----------------------------------------------------------------------------
(* The arguments and the responses of the model                             *)

AnObjectId == ObjectId_([n \in 1..(OID_HEX_LEN \div 2) |-> 171])

ADateTime == datetime_(1999, 12, 31, 23, 59, 59, 250)

EmptyDict == PyDict(<<>>)

Filters ==
    {EmptyDict,
     PyDict(<< <<"a", PyInt(1)>> >>),
     PyDict(<< <<"_id", AnObjectId>> >>)}

Projections ==
    {PyNone,
     PyDict(<< <<"a", PyInt(1)>> >>),
     PyDict(<< <<"since", ADateTime>> >>)}

Sorts == {PyNone, PyDict(<< <<"a", PyInt(-1)>> >>), PyDict(<< <<"k", MinKey>> >>)}

Updates ==
    {PyDict(<< <<"$set", PyDict(<< <<"a", PyInt(1)>> >>)>> >>),
     PyDict(<< <<"$set", PyDict(<< <<"at", ADateTime>> >>)>> >>)}

DocumentLists ==
    {PyList(<<>>),
     PyList(<<PyDict(<< <<"title", PyStr(<<"a">>)>>,
                        <<"body", EmbText_(PyDict(<< <<"text",
                                      PyStr(<<"h", "i">>)>> >>))>> >>)>>),
     PyList(<<PyDict(<< <<"a", PyInt(1)>> >>), PyDict(<< <<"_id", AnObjectId>> >>)>>),
     PyList(<<PyDict(<< <<"tags", PyObject("set")>> >>)>>)}

Statuses == {101, 200, 204, 304, 400, 401, 404, 500, 502}

ErrorBody(code) ==
    PyDict(<< <<"status", PyStr(<<"e", "r", "r">>)>>, <<"code", code>>,
              <<"message", PyStr(<<"n", "o">>)>> >>)

Bodies ==
    {NotJson(<<>>),
     NotJson(<<"B", "a", "d">>),
     ErrorBody(PyInt(401)), ErrorBody(PyInt(404)), ErrorBody(PyInt(500)),
     ErrorBody(PyInt(302)), ErrorBody(PyFloat(4010)),
     ErrorBody(PyStr(<<"4", "0", "1">>)), ErrorBody(PyNone),
     PyDict(<< <<"message", PyStr(<<"n", "o">>)>> >>),
     EmptyDict,
     PyList(<<>>),
     PyStr(<<"n", "o">>),
     PyNone,
     PyDict(<< <<"docs", PyList(<<PyDict(<< <<"_id",
                  PyDict(<< <<"$oid", PyStr([n \in 1..OID_HEX_LEN |-> "a"])>> >>)>> >>)>>)>> >>),
     PyDict(<< <<"matches", PyList(<<PyDict(<< <<"score", PyFloat(5)>> >>)>>)>> >>),
     PyDict(<< <<"$date", PyStr(<<"n", "o", "w">>)>> >>)}

-----------------------------------------------------------------------------
(* The operations: a call builds and sends the request, then the response   *)
(* arrives and the call returns or raises                                   *)

Init ==
    /\ pc = "idle"
    /\ op = "none" /\ args = <<>> /\ data = PyNone
    /\ response = PyNone /\ outcome = PyNone
    /\ value = PyNone /\ steps = 0 /\ wire = PyNone /\ decoded = PyNone

\* The call up to requests.<method>(url, headers=headers, json=body): the
\* body is built, which raises when __serialize does, and encoded, which
\* raises when json.dumps does.
Send(operation, arguments, body) ==
    /\ op' = operation
    /\ args' = arguments
    /\ response' = PyNone
    /\ IF IsRaise(body)
       THEN data' = PyNone /\ outcome' = body /\ pc' = "done"
       ELSE /\ data' = body
            /\ IF IsJsonEncodable(body)
               THEN outcome' = PyNone /\ pc' = "sent"
               ELSE outcome' = Raise("TypeError", "json.dumps") /\ pc' = "done"
    /\ UNCHANGED codecVars

Insert ==
    /\ pc = "idle"
    /\ \E documents \in DocumentLists :
        Send("insert", [documents |-> documents], InsertData(documents))

Update ==
    /\ pc = "idle"
    /\ \E filter \in Filters, update \in Updates, upsert \in BOOLEAN :
        Send("update", [filter |-> filter, update |-> update,
                        upsert |-> PyBool(upsert)],
             UpdateData(filter, update, PyBool(upsert)))

Delete ==
    /\ pc = "idle"
    /\ \E filter \in Filters :
        Send("delete", [filter |-> filter], DeleteData(filter))

Find ==
    /\ pc = "idle"
    /\ \E filter \in Filters, projection \in Projections, sort \in Sorts,
       limit \in {PyNone, PyInt(10)}, skip \in {PyNone, PyInt(0)} :
        Send("find", [filter |-> filter, projection |-> projection,
                      sort |-> sort, limit |-> limit, skip |-> skip],
             FindData(filter, projection, sort, limit, skip))

Query ==
    /\ pc = "idle"
    /\ \E filter \in Filters \cup {PyNone}, projection \in Projections,
       emb_model \in {PyNone, PyStr(<<"m">>)}, top_k \in {PyNone, PyInt(3)},
       include_values \in {PyNone, PyBool(TRUE), PyBool(FALSE)} :
        Send("query", [query |-> PyStr(<<"h", "i">>), filter |-> filter,
                       projection |-> projection, emb_model |-> emb_model,
                       top_k |-> top_k, include_values |-> include_values],
             QueryData(PyStr(<<"h", "i">>), filter, projection, emb_model,
                       top_k, include_values))

\* drop sends no body.
Drop ==
    /\ pc = "idle"
    /\ op' = "drop" /\ args' = <<>> /\ data' = PyNone
    /\ response' = PyNone /\ outcome' = PyNone
    /\ pc' = "sent"
    /\ UNCHANGED codecVars

\* The transport returns a response and the call ends on it.
Respond ==
    /\ pc = "sent"
    /\ \E status_code \in Statuses, body \in Bodies :
          /\ response' = Response(status_code, body)
          /\ outcome' = Result(op, Response(status_code, body))
    /\ pc' = "done"
    /\ UNCHANGED <<op, args, data, codecVars>>

\* The caller has the outcome; the collection object keeps nothing of it.
Return ==
    /\ pc = "done"
    /\ pc' = "idle"
    /\ op' = "none" /\ args' = <<>> /\ data' = PyNone
    /\ response' = PyNone /\ outcome' = PyNone
    /\ UNCHANGED codecVars

Next ==
    \/ Insert \/ Update \/ Delete \/ Find \/ Query \/ Drop
    \/ Respond \/ Return

Spec == Init /\ [][Next]_vars

-----------------------------------------------------------------------------
(* The codec applied to bounded inputs                                      *)

\* How many times an input of the codec is grown (wrapped or extended).
MaxSteps == 2

OidText == [n \in 1..OID_HEX_LEN |-> IF n % 2 = 1 THEN "0" ELSE "A"]

\* In-memory values without an ExtensionValue.
Scalars ==
    {PyNone, PyBool(TRUE), PyInt(1), PyFloat(15), PyStr(<<"a", "b">>)}

ExtensionValues ==
    {ObjectId_([n \in 1..(OID_HEX_LEN \div 2) |-> 171]),
     datetime_(2024, 2, 29, 13, 5, 9, 0),
     datetime_(1999, 12, 31, 23, 59, 59, 250),
     Decimal128_(TRUE, 5, 2),
     Binary_(<<0, 171, 255>>, 0),
     Binary_(<<16>>, 5),
     Regex_(PyStr(<<"^", "a">>), PyInt(2)),
     Code_(<<"x">>, PyNone),
     Code_(<<"x">>, PyDict(<< <<"a", PyInt(1)>> >>)),
     Timestamp_(1, 2),
     MinKey,
     MaxKey,
     EmbText_(PyDict(<< <<"text", PyStr(<<"h", "i">>)>> >>)),
     EmbImage_(PyDict(<< <<"data", PyStr(<<"i", "m", "g">>)>> >>))}

\* Values of types the codec does not know.
Unsupported == {PyObject("set"), PyBytes(<<1>>)}

Leaves == Scalars \cup ExtensionValues \cup Unsupported

EmbTags == {"@embText", "@embImage"}

TagKeys == EmbTags \cup {DollarTags[n] : n \in DOMAIN DollarTags}

AllKeys == TagKeys \cup {"$options", "$set", "a"}

\* Keys a value is wrapped under.
WrapKeys == {"a", "$set", "$oid", "$minKey", "@embText"}

\* What the server sends under a key: the tag's payload in wire form.
Payload(key) ==
    CASE key = "$oid" -> PyStr(OidText)
      [] key = "$date" ->
            PyStr(<<"2", "0", "2", "4", "-", "0", "2", "-", "2", "9", "T",
                    "1", "3", ":", "0", "5">>)
      [] key = "$numberDecimal" -> PyStr(<<"-", "0", ".", "0", "5">>)
      [] key = "$binary" -> PyStr(<<"0", "0", "A", "b">>)
      [] key = "$regex" -> PyStr(<<"^", "a">>)
      [] key = "$options" -> PyStr(<<"i", "m">>)
      [] key = "$code" -> PyStr(<<"x">>)
      [] key = "$timestamp" ->
            PyDict(<< <<"t", PyInt(1)>>, <<"i", PyInt(2)>> >>)
      [] key = "$minKey" -> PyInt(1)
      [] key = "$maxKey" -> PyInt(1)
      [] key = "@embText" -> PyDict(<< <<"text", PyStr(<<"h", "i">>)>> >>)
      [] key = "@embImage" -> PyDict(<< <<"data", PyStr(<<"i", "m", "g">>)>> >>)
      [] key = "$set" -> PyDict(<< <<"a", PyInt(1)>> >>)
      [] OTHER -> PyInt(1)

\* A value json can carry: what response.json() may return.
RECURSIVE IsJson(_)
IsJson(v) ==
    \/ v.t \in {"NoneType", "bool", "int", "float", "str"}
    \/ v.t = "dict" /\ \A n \in DOMAIN v.items : IsJson(v.items[n][2])
    \/ v.t = "list" /\ \A n \in DOMAIN v.elems : IsJson(v.elems[n])

CodecInit ==
    /\ pc = "value"
    /\ value \in Leaves \cup {PyDict(<< <<k, Payload(k)>> >>) : k \in AllKeys}
    /\ steps = 0
    /\ wire = PyNone
    /\ decoded = PyNone
    /\ op = "none" /\ args = <<>> /\ data = PyNone
    /\ response = PyNone /\ outcome = PyNone

\* The caller nests the value in a Document: {key: value}.
WrapDict ==
    /\ pc = "value" /\ steps < MaxSteps
    /\ \E key \in WrapKeys : value' = PyDict(<< <<key, value>> >>)
    /\ steps' = steps + 1
    /\ UNCHANGED <<pc, wire, decoded, facadeVars>>

\* The caller nests the value in a Sequence: [value].
WrapList ==
    /\ pc = "value" /\ steps < MaxSteps
    /\ value' = PyList(<<value>>)
    /\ steps' = steps + 1
    /\ UNCHANGED <<pc, wire, decoded, facadeVars>>

\* One more key in the Document, after those it has.
Extend ==
    /\ pc = "value" /\ steps < MaxSteps
    /\ value.t = "dict"
    /\ \E key \in AllKeys \ Keys(value) :
          value' = PyDict(Append(value.items, <<key, Payload(key)>>))
    /\ steps' = steps + 1
    /\ UNCHANGED <<pc, wire, decoded, facadeVars>>

\* wire = self.__serialize(value)
Serialize ==
    /\ pc = "value"
    /\ wire' = serialize(value)
    /\ pc' = "serialized"
    /\ UNCHANGED <<value, steps, decoded, facadeVars>>

\* The value is itself what a response carried: json_response.
Receive ==
    /\ pc = "value" /\ IsJson(value)
    /\ wire' = value
    /\ pc' = "received"
    /\ UNCHANGED <<value, steps, decoded, facadeVars>>

\* decoded = self.__deserialize(wire), of a serialized or a received form
Deserialize ==
    /\ pc \in {"serialized", "received"} /\ ~IsRaise(wire)
    /\ decoded' = deserialize(wire)
    /\ pc' = IF pc = "serialized" THEN "roundtrip" ELSE "decoded"
    /\ UNCHANGED <<value, steps, wire, facadeVars>>

CodecNext ==
    \/ WrapDict \/ WrapList \/ Extend
    \/ Serialize \/ Receive \/ Deserialize

CodecSpec == CodecInit /\ [][CodecNext]_vars

-----------------------------------------------------------------------------
(* Properties of the codec, stated for CodecSpec                            *)

ScalarTypes == {"NoneType", "bool", "int", "float", "str"}

ExtensionTypes ==
    {"ObjectId", "datetime", "Decimal128", "Binary", "Regex", "Code",
     "Timestamp", "MinKey", "MaxKey", "EmbText", "EmbImage"}

\* The Python type a tag decodes to.
TypeOfTag(key) ==
    CASE key = "$oid" -> "ObjectId"
      [] key = "$date" -> "datetime"
      [] key = "$numberDecimal" -> "Decimal128"
      [] key = "$binary" -> "Binary"
      [] key = "$regex" -> "Regex"
      [] key = "$code" -> "Code"
      [] key = "$timestamp" -> "Timestamp"
      [] key = "$minKey" -> "MinKey"
      [] key = "$maxKey" -> "MaxKey"
      [] key = "@embText" -> "EmbText"
      [] key = "@embImage" -> "EmbImage"

\* The type a result is of; of an exception, the type whose decoding raised.
Variant(result) == IF IsRaise(result) THEN result.by ELSE result.t

DollarTagSet == {DollarTags[n] : n \in DOMAIN DollarTags}

\* A wire Document with no embedding tag and at least two $-tags.
IsAmbiguous(v) ==
    /\ v.t = "dict"
    /\ Keys(v) \cap EmbTags = {}
    /\ Cardinality(Keys(v) \cap DollarTagSet) >= 2

\* The tag of the Document that comes first in the fixed list.
FirstByPriority(v) ==
    DollarTags[Min({n \in DOMAIN DollarTags : DollarTags[n] \in Keys(v)})]

\* The tag of the Document that comes first among its own keys.
FirstByKeyOrder(v) ==
    v.items[Min({n \in DOMAIN v.items : v.items[n][1] \in DollarTagSet})][1]

\* Built only from null, booleans, integers, floats, strings, Documents and
\* Sequences.
RECURSIVE IsStructural(_)
IsStructural(v) ==
    \/ v.t \in ScalarTypes
    \/ v.t = "dict" /\ \A n \in DOMAIN v.items : IsStructural(v.items[n][2])
    \/ v.t = "list" /\ \A n \in DOMAIN v.elems : IsStructural(v.elems[n])

\* Built from those and ExtensionValues.
RECURSIVE IsValue(_)
IsValue(v) ==
    \/ v.t \in ScalarTypes \cup ExtensionTypes
    \/ v.t = "dict" /\ \A n \in DOMAIN v.items : IsValue(v.items[n][2])
    \/ v.t = "list" /\ \A n \in DOMAIN v.elems : IsValue(v.elems[n])

\* An ExtensionValue, alone or nested in Documents and Sequences.
RECURSIVE HasExtension(_)
HasExtension(v) ==
    \/ v.t \in ExtensionTypes
    \/ v.t = "dict" /\ \E n \in DOMAIN v.items : HasExtension(v.items[n][2])
    \/ v.t = "list" /\ \E n \in DOMAIN v.elems : HasExtension(v.elems[n])

\* Some Document of the value has a wire tag among its keys.
RECURSIVE HasTagKey(_)
HasTagKey(v) ==
    \/ v.t = "dict" /\ Keys(v) \cap TagKeys # {}
    \/ v.t = "dict" /\ \E n \in DOMAIN v.items : HasTagKey(v.items[n][2])
    \/ v.t = "list" /\ \E n \in DOMAIN v.elems : HasTagKey(v.elems[n])

\* The value with every Binary's subtype forgotten: Binary is compared by
\* its bytes.
RECURSIVE ByBytes(_)
ByBytes(v) ==
    IF v.t = "Binary" THEN Binary_(v.data, 0)
    ELSE IF v.t = "dict"
    THEN PyDict([n \in DOMAIN v.items |->
                    <<v.items[n][1], ByBytes(v.items[n][2])>>])
    ELSE IF v.t = "list" THEN PyList([n \in DOMAIN v.elems |-> ByBytes(v.elems[n])])
    ELSE v

Depth2(v) ==
    \/ v.t = "dict" /\ \E n \in DOMAIN v.items : v.items[n][2].t \in {"dict", "list"}
    \/ v.t = "list" /\ \E n \in DOMAIN v.elems : v.elems[n].t \in {"dict", "list"}

\* C1 as claimed: a wire Document without embedding tags and with two or more
\* $-tags decodes as the variant of the tag that is first in the fixed order
\* $oid, $date, $numberDecimal, $binary, $regex, $code, $timestamp, $minKey,
\* $maxKey, whatever the order of its keys.
C1_FixedPriority ==
    (pc = "decoded" /\ IsAmbiguous(wire))
        => Variant(decoded) = TypeOfTag(FirstByPriority(wire))

\* C1 amended: such a Document decodes as the variant of the tag that comes
\* first among the Document's own keys, in their order.
C1_KeyOrder ==
    (pc = "decoded" /\ IsAmbiguous(wire))
        => Variant(decoded) = TypeOfTag(FirstByKeyOrder(wire))

\* C1 witness: a decoded Document whose first tag by key order is not its
\* first tag by priority.
C1_Witness ==
    /\ pc = "decoded" /\ IsAmbiguous(wire)
    /\ FirstByKeyOrder(wire) # FirstByPriority(wire)
    /\ ~IsRaise(decoded)
    /\ decoded.t = TypeOfTag(FirstByKeyOrder(wire))

\* C2: a wire Document with the key @embText decodes as EmbeddedText whatever
\* else it holds and wherever the key sits; one with @embImage and no
\* @embText decodes as EmbeddedImage; neither ever as a $-tagged variant.
C2_EmbeddingFirst ==
    (pc = "decoded" /\ wire.t = "dict")
        => /\ "@embText" \in Keys(wire) => decoded.t = "EmbText"
           /\ ("@embImage" \in Keys(wire) /\ "@embText" \notin Keys(wire))
                  => decoded.t = "EmbImage"

\* C2 witness: a Document that starts with $oid and holds @embText later,
\* decoded as EmbeddedText.
C2_Witness ==
    /\ pc = "decoded" /\ wire.t = "dict"
    /\ Len(wire.items) >= 2
    /\ wire.items[1][1] = "$oid"
    /\ "@embText" \in Keys(wire)
    /\ decoded.t = "EmbText"

\* C5 as claimed: deserialize(serialize(v)) = v, Binary by its bytes, for
\* every ExtensionValue v alone or nested at any depth in Documents and
\* Sequences.
C5_RoundTrip ==
    (pc = "roundtrip" /\ IsValue(value) /\ HasExtension(value))
        => ByBytes(decoded) = ByBytes(value)

\* C5 amended: the same, when no Document around v has a wire tag among its
\* keys.
C5_RoundTripNoTagKeys ==
    (pc = "roundtrip" /\ IsValue(value) /\ HasExtension(value)
        /\ ~HasTagKey(value))
        => ByBytes(decoded) = ByBytes(value)

\* C5 witness: a Binary of a subtype other than 0, two levels deep, that came
\* back with the same bytes.
C5_Witness ==
    /\ pc = "roundtrip" /\ IsValue(value) /\ HasExtension(value)
    /\ ~HasTagKey(value) /\ Depth2(value)
    /\ decoded # value
    /\ ByBytes(decoded) = ByBytes(value)

\* C6: serialize gives every ObjectId, DateTime, Decimal, Binary, Regex, Code,
\* Timestamp, MinKey and MaxKey the wire Document of its tag ($regex with
\* $options); none passes through untagged.
C6_TaggedForm ==
    (pc = "serialized" /\ value.t \in ExtensionTypes \ {"EmbText", "EmbImage"})
        => /\ wire.t = "dict"
           /\ TypeOfTag(wire.items[1][1]) = value.t
           /\ value.t = "Regex" => Keys(wire) = {"$regex", "$options"}
           /\ value.t # "Regex" => Len(wire.items) = 1

\* C7 as claimed: deserialize(serialize(x)) = x, key order included, for
\* every x without ExtensionValues, whatever its keys.
C7_Structural ==
    (pc = "roundtrip" /\ IsStructural(value)) => decoded = value

\* C7 amended: the same, when no Document of x has a wire tag among its keys.
C7_StructuralNoTagKeys ==
    (pc = "roundtrip" /\ IsStructural(value) /\ ~HasTagKey(value))
        => decoded = value

\* C7 witness: a Document of two keys, one of them $-prefixed, that holds a
\* container, came back as it was.
C7_Witness ==
    /\ pc = "roundtrip" /\ IsStructural(value) /\ ~HasTagKey(value)
    /\ value.t = "dict" /\ Len(value.items) = 2
    /\ Keys(value) \cap DollarKeys # {}
    /\ Depth2(value)
    /\ decoded = value

-----------------------------------------------------------------------------
(* Properties of the operations, stated for Spec                            *)

Taxonomy ==
    {"AuthenticationError", "ClientRequestError", "ServerError",
     "APIClientError"}

\* The call has ended on a response.
Answered == pc = "done" /\ response # PyNone

\* The class the classification rules name for a code.
ClassOfCode(code) ==
    IF Tenths(code) = 4010 THEN "AuthenticationError"
    ELSE IF Tenths(code) >= 4000 /\ Tenths(code) < 5000 THEN "ClientRequestError"
    ELSE "ServerError"

\* An error body: a JSON object whose code, when it has one, is a number.
IsErrorBody(body) ==
    /\ body.t = "dict"
    /\ "code" \in Keys(body) => IsNumber(GetItem(body, "code"))

\* The Document-valued parameters of each operation.
StructuredInputs(operation) ==
    CASE operation = "insert" -> {"documents"}
      [] operation = "update" -> {"filter", "update"}
      [] operation = "delete" -> {"filter"}
      [] operation = "find" -> {"filter", "projection", "sort"}
      [] operation = "query" -> {"filter", "projection"}
      [] OTHER -> {}

QueryOptionals == {"filter", "projection", "emb_model", "top_k", "include_values"}

\* C3: a call that got a response of a status outside 200..299 ends by
\* raising AuthenticationError, ClientRequestError, ServerError or
\* APIClientError, whatever the status and the body; it never returns a value
\* and never raises anything else.
C3_ClosedTaxonomy ==
    (Answered /\ ~(response.status_code \in 200..299))
        => (IsRaise(outcome) /\ outcome.exc \in Taxonomy)

\* C4: in every request body, each Document-valued argument that is set is
\* there under its key as TypeCodec.serialize made it.
C4_InputsSerialized ==
    data.t = "dict"
        => \A key \in StructuredInputs(op) :
              args[key].t # "NoneType"
                  => /\ key \in Keys(data)
                     /\ GetItem(data, key) = serialize(args[key])

\* C8: every response of status 400..599 ends in exactly one of four ways: a
\* body that is not JSON raises APIClientError with the HTTP status and the
\* raw text; otherwise the body's code decides: 401 AuthenticationError,
\* 400..499 ClientRequestError, any other ServerError, each with the code and
\* the message.
C8_Classification ==
    (Answered /\ response.status_code \in 400..599)
        => /\ IsRaise(outcome)
           /\ outcome.exc \in Taxonomy
           /\ response.body.t = "notjson"
                 => /\ outcome.exc = "APIClientError"
                    /\ outcome.status_code = PyInt(response.status_code)
                    /\ outcome.message = response.body.text
           /\ response.body.t # "notjson"
                 => outcome.exc \in Taxonomy \ {"APIClientError"}
           /\ (IsErrorBody(response.body) /\ "code" \in Keys(response.body))
                 => /\ outcome.exc = ClassOfCode(GetItem(response.body, "code"))
                    /\ outcome.status_code = GetItem(response.body, "code")

\* C9: drop returns None on status 204 whatever the body holds, parsing
\* nothing and raising nothing; on a status of 400..599 with a JSON error
\* body it raises the error the classifier chooses by the body's code.
C9_Drop ==
    (Answered /\ op = "drop")
        => /\ response.status_code = 204 => outcome = PyNone
           /\ (response.status_code \in 400..599 /\ IsErrorBody(response.body))
                 => /\ IsRaise(outcome)
                    /\ outcome.exc =
                          ClassOfCode(Get(response.body, "code", PyInt(500)))
                    /\ outcome.status_code =
                          Get(response.body, "code", PyInt(500))
                    /\ outcome.message =
                          Get(response.body, "message", UnknownError)

\* C9 witness: drop returned None on a 204 whose empty body is no JSON.
C9_Witness ==
    /\ Answered /\ op = "drop"
    /\ response = Response(204, NotJson(<<>>))
    /\ outcome = PyNone

\* C10: the body of query holds the key query and, of the optional arguments,
\* exactly those that are not None; no key holds null for an unset argument.
C10_QueryOmitsUnset ==
    (op = "query" /\ data.t = "dict")
        => /\ "query" \in Keys(data)
           /\ \A key \in QueryOptionals :
                 key \in Keys(data) <=> args[key].t # "NoneType"
           /\ \A n \in DOMAIN data.items : data.items[n][2].t # "NoneType"

\* C10 witness: a query sent with a filter and without top_k, whose body has
\* the one key and not the other.
C10_Witness ==
    /\ op = "query" /\ pc = "sent"
    /\ args.top_k = PyNone /\ args.filter # PyNone
    /\ "filter" \in Keys(data)
    /\ "top_k" \notin Keys(data)

=============================================================================
